---------------------------- MODULE Spec2Model ----------------------------
(***************************************************************************)
(* HealthBot: the conversation graph (graph.py), its session state schema  *)
(* (state.py), the node functions and the router (nodes.py) and the        *)
(* interactive loop that drives the graph (main.py).                       *)
(*                                                                         *)
(* Text is a sequence of one-character strings.  A template literal of the *)
(* source (a prompt, a banner) is one multi-character token of such a      *)
(* sequence.  Python values that are not text are bracketed tokens:        *)
(* <None>, <True>, <False>, <int>; a dictionary key that is not present    *)
(* is <absent>.                                                            *)
(***************************************************************************)
EXTENDS Integers, Sequences, FiniteSets, TLC

VARIABLES
    values,      \* the thread's channel values held by the checkpointer
    next,        \* the node the thread runs next, or END
    pc,          \* where the interactive session stands
    executed,    \* history: the nodes that completed, in order
    last,        \* history: the last node call and what it gave
    strictWrites,\* whether the graph library rejects an update that names no channel
    reported,    \* history: the next_node values the loop read from get_state
    announced,   \* history: the next_node read last, "none" once a node ran
    callFn,      \* direct call of a function: its name
    callArg,     \* direct call of a function: its argument
    callRet,     \* direct call of a function: what it returned
    storage,     \* several threads on one graph: the checkpoint of each thread
    callers      \* several threads on one graph: where each thread's loop stands

vars ==
    <<values, next, pc, executed, last, strictWrites, reported, announced,
      callFn, callArg, callRet, storage, callers>>

threadVars == <<storage, callers>>

sessionVars ==
    <<values, next, pc, executed, last, strictWrites, reported, announced>>

graphVars == <<sessionVars, threadVars>>

callVars == <<callFn, callArg, callRet>>

-----------------------------------------------------------------------------
(* Bounds of the model.                                                    *)

MaxLen == 2

MaxSources == 2

MaxSteps == 14

-----------------------------------------------------------------------------
(* Python values.                                                          *)

Absent == <<"<absent>">>

None == <<"<None>">>

PyTrue == <<"<True>">>

PyFalse == <<"<False>">>

Digits == <<"0", "1", "2", "3", "4", "5", "6", "7", "8", "9", "10", "11">>

PyInt(n) == <<"<int>", Digits[n + 1]>>

\* bool(v) of Python: None, False, 0, "" are false; everything else is true.
Truthy(v) == v \notin {None, PyFalse, PyInt(0), <<>>}

-----------------------------------------------------------------------------
(* str methods.                                                            *)

LowerLetters ==
    <<"a", "b", "c", "d", "e", "f", "g", "h", "i", "j", "k", "l", "m",
      "n", "o", "p", "q", "r", "s", "t", "u", "v", "w", "x", "y", "z">>

UpperLetters ==
    <<"A", "B", "C", "D", "E", "F", "G", "H", "I", "J", "K", "L", "M",
      "N", "O", "P", "Q", "R", "S", "T", "U", "V", "W", "X", "Y", "Z">>

Whitespace == {" ", "\t", "\n"}

UpperChar(c) ==
    IF \E i \in 1..26 : LowerLetters[i] = c
    THEN UpperLetters[CHOOSE i \in 1..26 : LowerLetters[i] = c]
    ELSE c

LowerChar(c) ==
    IF \E i \in 1..26 : UpperLetters[i] = c
    THEN LowerLetters[CHOOSE i \in 1..26 : UpperLetters[i] = c]
    ELSE c

\* str.upper()
Upper(s) == [i \in 1..Len(s) |-> UpperChar(s[i])]

\* str.lower()
Lower(s) == [i \in 1..Len(s) |-> LowerChar(s[i])]

SetMin(S) == CHOOSE x \in S : \A y \in S : x <= y

SetMax(S) == CHOOSE x \in S : \A y \in S : y <= x

\* str.strip()
Strip(s) ==
    LET keep == {i \in 1..Len(s) : s[i] \notin Whitespace}
    IN  IF keep = {} THEN <<>> ELSE SubSeq(s, SetMin(keep), SetMax(keep))

\* p in s, for strings
Contains(s, p) ==
    \E i \in 1..(Len(s) - Len(p) + 1) : SubSeq(s, i, i + Len(p) - 1) = p

\* s.startswith(p)
StartsWith(s, p) == Len(s) >= Len(p) /\ SubSeq(s, 1, Len(p)) = p

OPTION == <<"O", "P", "T", "I", "O", "N", " ">>

ALTERNATIVE == <<"A", "L", "T", "E", "R", "N", "A", "T", "I", "V", "E", " ">>

-----------------------------------------------------------------------------
(* nodes.py: answer normalization.                                         *)

NamesOption(answer, X) ==
    Contains(answer, OPTION \o <<X>>) \/ Contains(answer, ALTERNATIVE \o <<X>>)

FirstCharWrong(answer) ==
    IF Len(answer) > 0 THEN <<answer[1]>> ELSE <<>>

FirstCharFallback(answer) ==
    IF Len(answer) > 0 /\ answer[1] \in {"A", "B", "C", "D"}
    THEN <<answer[1]>>
    ELSE <<>>

NoUpperWrong(raw_answer) == Strip(raw_answer)

CleanAnswer(raw_answer) == Strip(Upper(raw_answer))

FirstCharFirstWrong(raw_answer) ==
    LET answer == CleanAnswer(raw_answer)
    IN  IF answer \in {<<"A">>, <<"1">>} THEN <<"A">>
        ELSE IF answer \in {<<"B">>, <<"2">>} THEN <<"B">>
        ELSE IF answer \in {<<"C">>, <<"3">>} THEN <<"C">>
        ELSE IF answer \in {<<"D">>, <<"4">>} THEN <<"D">>
        ELSE IF FirstCharFallback(answer) # <<>> THEN FirstCharFallback(answer)
        ELSE IF NamesOption(answer, "A") THEN <<"A">>
        ELSE IF NamesOption(answer, "B") THEN <<"B">>
        ELSE IF NamesOption(answer, "C") THEN <<"C">>
        ELSE IF NamesOption(answer, "D") THEN <<"D">>
        ELSE <<>>

_normalize_quiz_answer(raw_answer) ==
    LET answer == CleanAnswer(raw_answer)
    IN  IF answer \in {<<"A">>, <<"1">>} THEN <<"A">>
        ELSE IF answer \in {<<"B">>, <<"2">>} THEN <<"B">>
        ELSE IF answer \in {<<"C">>, <<"3">>} THEN <<"C">>
        ELSE IF answer \in {<<"D">>, <<"4">>} THEN <<"D">>
        ELSE IF NamesOption(answer, "A") THEN <<"A">>
        ELSE IF NamesOption(answer, "B") THEN <<"B">>
        ELSE IF NamesOption(answer, "C") THEN <<"C">>
        ELSE IF NamesOption(answer, "D") THEN <<"D">>
        ELSE FirstCharFallback(answer)

-----------------------------------------------------------------------------
(* Messages and the session state.                                         *)

HumanMessage(content) == [role |-> "human", content |-> content]

AIMessage(content) == [role |-> "ai", content |-> content]

\* utils.py: a message's content as text.  Content is a str here, which the
\* function returns as it is.
extract_message_content(message) == message.content

\* A grade is the value json.loads gave, or the dictionary a node built:
\* its kind, the names "k in grade" is true of, and the three entries.
GradeValue(kind, keys, score, feedback, citations) ==
    [kind |-> kind, keys |-> keys, score |-> score,
     feedback |-> feedback, citations |-> citations]

AbsentGrade == GradeValue("absent", {}, None, <<>>, <<>>)

NoneGrade == GradeValue("none", {}, None, <<>>, <<>>)

GradeKeys == {"score", "feedback", "citations"}

GradeDict(score, feedback, citations) ==
    GradeValue("dict", GradeKeys, score, feedback, citations)

StateKeys ==
    {"messages", "topic", "results", "summary", "quiz_question", "quiz_answer",
     "grade", "continue_learning", "has_results", "sources_count", "run_id"}

\* A dictionary with none of the keys: the update that writes nothing, and
\* the channels before anything was written to them.
NoUpdate ==
    [messages |-> <<>>, topic |-> Absent, results |-> Absent, summary |-> Absent,
     quiz_question |-> Absent, quiz_answer |-> Absent, grade |-> AbsentGrade,
     continue_learning |-> Absent, has_results |-> Absent,
     sources_count |-> Absent, run_id |-> Absent]

\* The keys a returned dictionary holds.
KeysOf(upd) ==
    {k \in StateKeys \ {"messages", "grade"} : upd[k] # Absent}
        \cup (IF upd.messages # <<>> THEN {"messages"} ELSE {})
        \cup (IF upd.grade.kind # "absent" THEN {"grade"} ELSE {})

\* What a node call gives: the dictionary it returned or the exception it
\* raised, and the external calls it made.
Returned(upd, calls) == [err |-> "none", upd |-> upd, calls |-> calls]

Raised(err, calls) == [err |-> err, upd |-> NoUpdate, calls |-> calls]

\* One external call a node made: the service, and whether it answered.
ServiceCall(service, ok) == [service |-> service, ok |-> ok]

\* results = tavily.invoke({"query": query}): the one search call of a
\* search_tavily execution; no loop and no second call surrounds it.
SearchCalls(ok) == <<ServiceCall("search", ok)>>

RetryWrong(ok) ==
    IF ok THEN <<ServiceCall("llm", ok)>>
    ELSE <<ServiceCall("llm", FALSE), ServiceCall("llm", FALSE)>>

\* response = llm.invoke([system_msg, user_msg]): the one LLM call of a
\* summarize, create_quiz or grade_answer execution.
LLMCalls(ok) == <<ServiceCall("llm", ok)>>

SwallowedWrong(calls) ==
    Returned([NoUpdate EXCEPT
                  !.messages = <<AIMessage(<<"Error: service unavailable.">>)>>],
             calls)

\* An invoke that raised: no try statement encloses the call, so the
\* exception leaves the node with nothing returned.
InvokeRaised(calls) == Raised("ServiceError", calls)

\* state["messages"][-1]
LastMessage(state) == state.messages[Len(state.messages)]

-----------------------------------------------------------------------------
(* nodes.py: user interaction nodes.                                       *)

AskTopicText == <<"Hello! I'm HealthBot ... What health topic would you like to learn about today?">>

ask_topic(state) ==
    Returned([NoUpdate EXCEPT !.messages = <<AIMessage(AskTopicText)>>], <<>>)

ConfirmationText(topic) ==
    <<"Got it! I'll search for reliable information about **">> \o topic
        \o <<"**. Please wait a moment...">>

NoTopicFallbackWrong == None

GeneralHealth == <<"general health">>

receive_topic(state) ==
    IF state.messages = <<>> THEN Raised("IndexError", <<>>)
    ELSE IF LastMessage(state).role = "human"
    THEN LET topic == Strip(extract_message_content(LastMessage(state)))
         IN  Returned([NoUpdate EXCEPT
                           !.topic = topic,
                           !.messages = <<AIMessage(ConfirmationText(topic))>>],
                      <<>>)
    ELSE Returned([NoUpdate EXCEPT !.topic = GeneralHealth], <<>>)

-----------------------------------------------------------------------------
(* nodes.py: processing nodes.  The search service and the language model  *)
(* are outside the program: what they answer is an input of the step.      *)

NoTopicError == <<"Error: No topic provided.">>

NoResultsText == <<"No reliable information found for this topic. Please try a different or more specific health topic.">>

NA == <<"N/A">>

\* result.get(key, 'N/A')
GetOrNA(v) == IF v = Absent THEN NA ELSE v

RECURSIVE FormatFrom(_, _)
FormatFrom(results, i) ==
    IF i > Len(results) THEN <<>>
    ELSE <<"\n--- Source ", Digits[i + 1], " ---\n", "URL: ">>
             \o GetOrNA(results[i].url) \o <<"\n", "Content: ">>
             \o GetOrNA(results[i].content) \o <<"\n">>
             \o FormatFrom(results, i + 1)

FormatResults(results) == FormatFrom(results, 1)

search_tavily(state, tavily) ==
    IF state.topic = Absent THEN Raised("KeyError", <<>>)
    ELSE IF ~Truthy(state.topic)
    THEN Returned([NoUpdate EXCEPT !.results = NoTopicError], <<>>)
    ELSE IF ~tavily.ok THEN InvokeRaised(SearchCalls(FALSE))
    ELSE IF Len(tavily.results) = 0
    THEN Returned([NoUpdate EXCEPT !.results = NoResultsText,
                                   !.has_results = PyFalse],
                  SearchCalls(TRUE))
    ELSE Returned([NoUpdate EXCEPT
                       !.results = FormatResults(tavily.results),
                       !.has_results = PyTrue,
                       !.sources_count = PyInt(Len(tavily.results))],
                  SearchCalls(TRUE))

CouldNotFindText(topic) ==
    <<"I couldn't find reliable medical information about **">> \o topic
        \o <<"**. ... Would you like to try a different health topic?">>

handle_no_results(state) ==
    IF state.topic = Absent THEN Raised("KeyError", <<>>)
    ELSE Returned([NoUpdate EXCEPT
                       !.messages = <<AIMessage(CouldNotFindText(state.topic))>>],
                  <<>>)

MissingSummaryData == <<"Error: Missing data for summarization.">>

summarize(state, llm) ==
    IF state.topic = Absent \/ state.results = Absent THEN Raised("KeyError", <<>>)
    ELSE IF ~Truthy(state.topic) \/ ~Truthy(state.results)
    THEN Returned([NoUpdate EXCEPT !.summary = MissingSummaryData], <<>>)
    ELSE IF ~llm.ok THEN InvokeRaised(LLMCalls(FALSE))
    ELSE Returned([NoUpdate EXCEPT !.summary = llm.text], LLMCalls(TRUE))

NoSummaryError == <<"Error: No summary available.">>

present_summary(state) ==
    IF state.summary = Absent THEN Raised("KeyError", <<>>)
    ELSE IF ~Truthy(state.summary)
    THEN Returned([NoUpdate EXCEPT !.messages = <<AIMessage(NoSummaryError)>>], <<>>)
    ELSE Returned([NoUpdate EXCEPT !.messages = <<AIMessage(state.summary)>>], <<>>)

-----------------------------------------------------------------------------
(* nodes.py: quiz system nodes.                                            *)

NoQuizError == <<"Error: Could not create quiz.">>

create_quiz(state, llm) ==
    IF state.summary = Absent \/ state.topic = Absent THEN Raised("KeyError", <<>>)
    ELSE IF ~Truthy(state.summary) \/ ~Truthy(state.topic)
    THEN Returned([NoUpdate EXCEPT !.quiz_question = NoQuizError], <<>>)
    ELSE IF ~llm.ok THEN InvokeRaised(LLMCalls(FALSE))
    ELSE Returned([NoUpdate EXCEPT !.quiz_question = llm.text], LLMCalls(TRUE))

QuizText(quiz_question) ==
    <<"\n---\n\nNow let's test your understanding!\n\n">> \o quiz_question
        \o <<"\n\nType the letter of the alternative you consider correct (A, B, C or D):">>

present_quiz(state) ==
    IF state.quiz_question = Absent THEN Raised("KeyError", <<>>)
    ELSE IF ~Truthy(state.quiz_question)
    THEN Returned([NoUpdate EXCEPT !.messages = <<AIMessage(NoQuizError)>>], <<>>)
    ELSE Returned([NoUpdate EXCEPT
                       !.messages = <<AIMessage(QuizText(state.quiz_question))>>],
                  <<>>)

StoreRawWrong(raw_answer) == raw_answer

NormalizedAnswer(raw_answer) == _normalize_quiz_answer(raw_answer)

AnswerEchoWrong(state) ==
    Returned([NoUpdate EXCEPT !.quiz_answer = <<>>,
                              !.messages = <<AIMessage(<<"Answer received.">>)>>],
             <<>>)

receive_answer(state) ==
    IF state.messages = <<>> THEN Raised("IndexError", <<>>)
    ELSE IF LastMessage(state).role = "human"
    THEN LET raw_answer == Strip(extract_message_content(LastMessage(state)))
         IN  Returned([NoUpdate EXCEPT !.quiz_answer = NormalizedAnswer(raw_answer)],
                      <<>>)
    ELSE Returned([NoUpdate EXCEPT !.quiz_answer = <<>>], <<>>)

\* The first place sep occurs in text, 0 when it does not.
Find(text, sep) ==
    IF Contains(text, sep)
    THEN SetMin({i \in 1..(Len(text) - Len(sep) + 1) :
                     SubSeq(text, i, i + Len(sep) - 1) = sep})
    ELSE 0

\* text.split(sep)[0]
Split0(text, sep) ==
    IF Contains(text, sep) THEN SubSeq(text, 1, Find(text, sep) - 1) ELSE text

\* text.split(sep)[1], where sep occurs in text
Split1(text, sep) ==
    Split0(SubSeq(text, Find(text, sep) + Len(sep), Len(text)), sep)

\* The three backquotes that open and close a markdown code block.
FENCE == <<"<fence>">>

FENCE_JSON == <<"<fence>", "j", "s", "o", "n">>

\* The documents json.loads accepts, each one token of a response, and the
\* value it gives for each.
JsonDocs ==
    {"{score:8,feedback,citations}", "{score:3,feedback,citations}",
     "{score:11,feedback,citations}", "{score:8,feedback}", "{}",
     "{score:high,feedback,citations}",
     "[score,feedback,citations]", "[1,2]", "3", "null", "true",
     "\"score feedback citations\"", "\"ok\""}

JsonValue(doc) ==
    CASE doc = "{score:8,feedback,citations}" ->
             GradeDict(PyInt(8), <<"f">>, << <<"c">> >>)
      [] doc = "{score:3,feedback,citations}" ->
             GradeDict(PyInt(3), <<"g">>, <<>>)
      [] doc = "{score:11,feedback,citations}" ->
             GradeDict(PyInt(11), <<"f">>, <<>>)
      [] doc = "{score:high,feedback,citations}" ->
             GradeDict(<<"h", "i", "g", "h">>, <<"f">>, <<>>)
      [] doc = "{score:8,feedback}" ->
             GradeValue("dict", {"score", "feedback"}, PyInt(8), <<"f">>, <<>>)
      [] doc = "{}" -> GradeValue("dict", {}, None, <<>>, <<>>)
      [] doc = "[score,feedback,citations]" ->
             GradeValue("list", GradeKeys, None, <<>>, <<>>)
      [] doc = "[1,2]" -> GradeValue("list", {}, None, <<>>, <<>>)
      [] doc = "3" -> GradeValue("number", {}, None, <<>>, <<>>)
      [] doc = "null" -> NoneGrade
      [] doc = "true" -> GradeValue("bool", {}, None, <<>>, <<>>)
      [] doc = "\"score feedback citations\"" ->
             GradeValue("str", GradeKeys, None, <<>>, <<>>)
      [] doc = "\"ok\"" -> GradeValue("str", {}, None, <<>>, <<>>)

\* json.loads(text): the value, or JSONDecodeError
JsonLoads(text) ==
    IF Len(text) = 1 /\ text[1] \in JsonDocs
    THEN [ok |-> TRUE, value |-> JsonValue(text[1])]
    ELSE [ok |-> FALSE, value |-> NoneGrade]

UnfenceTaggedOnlyWrong(evaluation_text) ==
    IF Contains(evaluation_text, FENCE_JSON)
    THEN Split0(Split1(evaluation_text, FENCE_JSON), FENCE)
    ELSE evaluation_text

\* The response with the markdown code block around it removed.
Unfence(evaluation_text) ==
    IF Contains(evaluation_text, FENCE_JSON)
    THEN Split0(Split1(evaluation_text, FENCE_JSON), FENCE)
    ELSE IF Contains(evaluation_text, FENCE)
    THEN Split0(Split1(evaluation_text, FENCE), FENCE)
    ELSE evaluation_text

NoEvaluationFeedback == <<"Error: Could not evaluate the answer.">>

FallbackTrimmedWrong(evaluation_text) ==
    GradeDict(PyInt(5), Strip(evaluation_text), <<>>)

FallbackGrade(evaluation_text) == GradeDict(PyInt(5), evaluation_text, <<>>)

ParseGrade(response) ==
    LET evaluation_text == Unfence(response)
        parsed == JsonLoads(Strip(evaluation_text))
        grade_data == parsed.value
    IN  IF ~parsed.ok
        THEN Returned([NoUpdate EXCEPT !.grade = FallbackGrade(evaluation_text)],
                      LLMCalls(TRUE))
        ELSE IF grade_data.kind \notin {"dict", "list", "str"}
        THEN Raised("TypeError", LLMCalls(TRUE))
        ELSE IF ~(GradeKeys \subseteq grade_data.keys)
        THEN Returned([NoUpdate EXCEPT !.grade = FallbackGrade(evaluation_text)],
                      LLMCalls(TRUE))
        ELSE IF grade_data.kind # "dict"
        THEN Raised("TypeError", LLMCalls(TRUE))
        ELSE Returned([NoUpdate EXCEPT !.grade = grade_data], LLMCalls(TRUE))

grade_answer(state, llm) ==
    IF \/ state.quiz_question = Absent
       \/ state.quiz_answer = Absent
       \/ state.summary = Absent
    THEN Raised("KeyError", <<>>)
    ELSE IF \/ ~Truthy(state.quiz_question)
            \/ ~Truthy(state.quiz_answer)
            \/ ~Truthy(state.summary)
    THEN Returned([NoUpdate EXCEPT
                       !.grade = GradeDict(PyInt(0), NoEvaluationFeedback, <<>>)],
                  <<>>)
    ELSE IF ~llm.ok THEN InvokeRaised(LLMCalls(FALSE))
    ELSE ParseGrade(llm.text)

NoGradeError == <<"Error: Could not evaluate your answer.">>

IsPyInt(v) == \E n \in 0..11 : v = PyInt(n)

IntOf(v) == CHOOSE n \in 0..11 : v = PyInt(n)

Congratulations == <<"Congratulations! You demonstrated good understanding of the topic!">>

RightTrack == <<"You're on the right track! Review some points.">>

KeepLearning == <<"Don't be discouraged! Review the summary and keep learning.">>

ClosingFromSixWrong(score) ==
    IF score >= 6 THEN Congratulations
    ELSE IF score >= 5 THEN RightTrack
    ELSE KeepLearning

Closing(score) ==
    IF score >= 7 THEN Congratulations
    ELSE IF score >= 5 THEN RightTrack
    ELSE KeepLearning

RECURSIVE CitationLines(_, _)
CitationLines(citations, i) ==
    IF i > Len(citations) THEN <<>>
    ELSE <<Digits[i + 1], ". \"">> \o citations[i] \o <<"\"\n">>
             \o CitationLines(citations, i + 1)

EvaluationMessage(score, feedback, citations) ==
    <<"YOUR ANSWER EVALUATION\n\n**Score: ", Digits[score + 1], "/10**\n\n**Feedback:**\n">>
        \o feedback \o <<"\n\n">>
        \o (IF Len(citations) > 0
            THEN <<"**Relevant excerpts from the summary:**\n">>
                     \o CitationLines(citations, 1) \o <<"\n">>
            ELSE <<>>)
        \o <<"(rule)\n", "\n">> \o Closing(score) \o <<"\n">>

present_grade(state) ==
    LET grade == state.grade
        \* grade.get("score", 0), grade.get("feedback", ""), grade.get("citations", [])
        score == IF "score" \in grade.keys THEN grade.score ELSE PyInt(0)
        feedback == IF "feedback" \in grade.keys THEN grade.feedback ELSE <<>>
        citations == IF "citations" \in grade.keys THEN grade.citations ELSE <<>>
    IN  IF grade.kind = "absent" THEN Raised("KeyError", <<>>)
        ELSE IF grade.kind = "none" \/ (grade.kind = "dict" /\ grade.keys = {})
        THEN Returned([NoUpdate EXCEPT !.messages = <<AIMessage(NoGradeError)>>], <<>>)
        ELSE IF grade.kind # "dict" THEN Raised("AttributeError", <<>>)
        ELSE IF ~IsPyInt(score) THEN Raised("TypeError", <<>>)
        ELSE Returned([NoUpdate EXCEPT
                           !.messages = <<AIMessage(EvaluationMessage(
                                              IntOf(score), feedback, citations))>>],
                      <<>>)

-----------------------------------------------------------------------------
(* nodes.py: continuation loop nodes and the routing function.             *)

AskContinueText == <<"Would you like to learn about another health topic? Type 'yes' to continue or 'no' to end the session.">>

AskNothingWrong(state) == Returned([NoUpdate EXCEPT !.topic = None], <<>>)

ask_continue(state) ==
    Returned([NoUpdate EXCEPT !.messages = <<AIMessage(AskContinueText)>>], <<>>)

FourAffirmativesWrong ==
    {<<"y", "e", "s">>, <<"y">>, <<"s", "i", "m">>, <<"s">>}

Affirmatives ==
    {<<"y", "e", "s">>, <<"y">>, <<"s", "i", "m">>, <<"s">>, <<"s", "i">>,
     <<"y", "e", "a", "h">>, <<"y", "e", "p">>}

KeepCycleWrong == [NoUpdate EXCEPT !.continue_learning = PyTrue]

AppendOnResetWrong ==
    [NoUpdate EXCEPT
        !.continue_learning = PyTrue,
        !.messages = <<AIMessage(<<"Starting a new topic.">>)>>,
        !.topic = None, !.results = None, !.summary = None,
        !.quiz_question = None, !.quiz_answer = None, !.grade = NoneGrade]

ResetUpdate ==
    [NoUpdate EXCEPT
        !.continue_learning = PyTrue,
        !.topic = None, !.results = None, !.summary = None,
        !.quiz_question = None, !.quiz_answer = None, !.grade = NoneGrade]

receive_continue(state) ==
    IF state.messages = <<>> THEN Raised("IndexError", <<>>)
    ELSE IF LastMessage(state).role = "human"
    THEN LET response == Lower(Strip(extract_message_content(LastMessage(state))))
             wants_to_continue == response \in Affirmatives
         IN  IF wants_to_continue
             THEN Returned(ResetUpdate, <<>>)
             ELSE Returned([NoUpdate EXCEPT !.continue_learning = PyFalse], <<>>)
    ELSE Returned([NoUpdate EXCEPT !.continue_learning = PyFalse], <<>>)

ExactlyTrueWrong(continue_learning) == continue_learning = PyTrue

AlwaysLoopWrong(continue_learning) == TRUE

\* "if continue_learning:"
RouteTest(continue_learning) == Truthy(continue_learning)

should_continue(state) ==
    LET \* state.get("continue_learning", False)
        continue_learning ==
            IF state.continue_learning = Absent THEN PyFalse
            ELSE state.continue_learning
    IN  IF RouteTest(continue_learning) THEN "ask_topic" ELSE "end"

-----------------------------------------------------------------------------
(* state.py and graph.py: the schema, the edges, the interrupts.           *)

\* The channels of the graph: the keys HealthBotState declares.
SchemaKeys == {"messages", "topic", "results", "summary"}

START == "__start__"

END == "__end__"

EntryPoint == "ask_topic"

NodeNames ==
    {"ask_topic", "receive_topic", "search_tavily", "summarize",
     "present_summary", "create_quiz", "present_quiz", "receive_answer",
     "grade_answer", "present_grade", "ask_continue", "receive_continue"}

EdgeSkipWrong(node) ==
    CASE node = "ask_topic" -> "receive_topic"
      [] node = "receive_topic" -> "search_tavily"
      [] node = "search_tavily" -> "present_summary"
      [] node = "summarize" -> "present_summary"
      [] node = "present_summary" -> "create_quiz"
      [] node = "create_quiz" -> "present_quiz"
      [] node = "present_quiz" -> "receive_answer"
      [] node = "receive_answer" -> "grade_answer"
      [] node = "grade_answer" -> "present_grade"
      [] node = "present_grade" -> "ask_continue"
      [] node = "ask_continue" -> "receive_continue"

\* workflow.add_edge(node, Edge(node))
Edge(node) ==
    CASE node = "ask_topic" -> "receive_topic"
      [] node = "receive_topic" -> "search_tavily"
      [] node = "search_tavily" -> "summarize"
      [] node = "summarize" -> "present_summary"
      [] node = "present_summary" -> "create_quiz"
      [] node = "create_quiz" -> "present_quiz"
      [] node = "present_quiz" -> "receive_answer"
      [] node = "receive_answer" -> "grade_answer"
      [] node = "grade_answer" -> "present_grade"
      [] node = "present_grade" -> "ask_continue"
      [] node = "ask_continue" -> "receive_continue"

\* The conditional edge of receive_continue.
ConditionalEdge(state) ==
    IF should_continue(state) = "ask_topic" THEN "ask_topic" ELSE END

Successor(node, state) ==
    IF node = "receive_continue" THEN ConditionalEdge(state) ELSE Edge(node)

PauseOnlyAnswersWrong == {"receive_answer", "receive_continue"}

interrupt_before == {"receive_topic", "receive_answer", "receive_continue"}

\* The node function behind each name (workflow.add_node).
RunNode(node, state, tavily, llm) ==
    CASE node = "ask_topic" -> ask_topic(state)
      [] node = "receive_topic" -> receive_topic(state)
      [] node = "search_tavily" -> search_tavily(state, tavily)
      [] node = "summarize" -> summarize(state, llm)
      [] node = "present_summary" -> present_summary(state)
      [] node = "create_quiz" -> create_quiz(state, llm)
      [] node = "present_quiz" -> present_quiz(state)
      [] node = "receive_answer" -> receive_answer(state)
      [] node = "grade_answer" -> grade_answer(state, llm)
      [] node = "present_grade" -> present_grade(state)
      [] node = "ask_continue" -> ask_continue(state)
      [] node = "receive_continue" -> receive_continue(state)

\* add_messages: the reducer of the messages channel.  The messages the
\* program writes carry fresh ids, so each is appended.
ReplaceWrong(left, right) == right

add_messages(left, right) == left \o right

\* A channel without reducer keeps the last value written to it.  A key
\* that is no channel of the schema is not written.
WriteAllWrong(key, old, new) == IF new # Absent THEN new ELSE old

Write(key, old, new) ==
    IF key \in SchemaKeys /\ new # Absent THEN new ELSE old

\* The update of a node (or of update_state, or the input of invoke)
\* applied to the channels.
ApplyWrites(vals, upd) ==
    [messages |-> add_messages(vals.messages, upd.messages),
     topic |-> Write("topic", vals.topic, upd.topic),
     results |-> Write("results", vals.results, upd.results),
     summary |-> Write("summary", vals.summary, upd.summary),
     quiz_question |-> Write("quiz_question", vals.quiz_question, upd.quiz_question),
     quiz_answer |-> Write("quiz_answer", vals.quiz_answer, upd.quiz_answer),
     grade |-> IF "grade" \in SchemaKeys /\ upd.grade.kind # "absent"
               THEN upd.grade ELSE vals.grade,
     continue_learning |->
         Write("continue_learning", vals.continue_learning, upd.continue_learning),
     has_results |-> Write("has_results", vals.has_results, upd.has_results),
     sources_count |-> Write("sources_count", vals.sources_count, upd.sources_count),
     run_id |-> Write("run_id", vals.run_id, upd.run_id)]

\* Versions of the graph library differ on an update that names no channel
\* of the schema: it is dropped, or the step fails with InvalidUpdateError.
Rejected(upd) == strictWrites /\ KeysOf(upd) \cap SchemaKeys = {}

-----------------------------------------------------------------------------
(* What the world outside supplies.                                        *)

ResultItems ==
    {[url |-> <<"u">>, content |-> <<"c">>], [url |-> Absent, content |-> <<"d">>]}

RECURSIVE SeqsUpTo(_, _)
SeqsUpTo(S, n) ==
    IF n = 0 THEN {<<>>}
    ELSE LET shorter == SeqsUpTo(S, n - 1)
         IN  shorter \cup {Append(q, x) : q \in shorter, x \in S}

SearchOutcomes ==
    {[ok |-> FALSE, results |-> <<>>]}
        \cup {[ok |-> TRUE, results |-> r] : r \in SeqsUpTo(ResultItems, MaxSources)}

LLMTexts ==
    {<<>>, <<"T">>, <<"<fence>", "j", "s", "o", "n", "\n", "{score:8,feedback,citations}", "\n", "<fence>">>,
     <<"{score:3,feedback,citations}">>, <<"n", "o", "t", " ", "j", "s", "o", "n">>}

LLMOutcomes ==
    {[ok |-> FALSE, text |-> <<>>]} \cup {[ok |-> TRUE, text |-> t] : t \in LLMTexts}

\* What the user types, as input().strip() hands it to the loop.
UserInputs ==
    {<<>>, <<"f", "l", "u">>, <<"e", "x", "i", "t">>, <<"Q", "u", "i", "t">>,
     <<"b", "y", "e">>, <<"B">>, <<"c">>, <<"x">>, <<"y", "e", "s">>,
     <<"S", "i", "m">>, <<"s", "i">>, <<"n", "o">>}

\* Only the nodes that call a service see one of its outcomes.
TavilyFor(node) ==
    IF node = "search_tavily" THEN SearchOutcomes ELSE {[ok |-> FALSE, results |-> <<>>]}

LLMFor(node) ==
    IF node \in {"summarize", "create_quiz", "grade_answer"}
    THEN LLMOutcomes ELSE {[ok |-> FALSE, text |-> <<>>]}

RunIds == {<<"run-1">>}

-----------------------------------------------------------------------------
(* The session: main.py's loop around the compiled graph.                  *)

EmptyChannels == NoUpdate

NoCall == [node |-> "none", err |-> "none", upd |-> NoUpdate, calls |-> <<>>]

NoDirectCall ==
    /\ callFn = "none"
    /\ callArg = <<>>
    /\ callRet = <<>>

\* The session of main.py is the one thread of its graph.
NoThreads ==
    /\ storage = <<>>
    /\ callers = <<>>

Init ==
    /\ values = EmptyChannels
    /\ next = START
    /\ pc = "start"
    /\ executed = <<>>
    /\ last = NoCall
    /\ strictWrites \in BOOLEAN
    /\ reported = {}
    /\ announced = "none"
    /\ NoDirectCall
    /\ NoThreads

\* result = app.invoke(initial_state, config)
StartSession ==
    /\ pc = "start"
    /\ \E run_id \in RunIds :
           values' = ApplyWrites(EmptyChannels, [NoUpdate EXCEPT !.run_id = run_id])
    /\ next' = EntryPoint
    /\ pc' = "running"
    /\ UNCHANGED <<executed, last, strictWrites, reported, announced, callVars,
                   threadVars>>

PartialWriteWrong(failed, saved, reached) == reached

\* What the checkpointer holds after a step: what the step reached when it
\* completed; when it raised, nothing was saved after the checkpoint
\* before it, which stays the thread's latest.
Checkpoint(failed, saved, reached) == IF failed THEN saved ELSE reached

\* One step of the graph on a thread's channel values: the pending node
\* runs, its update is written, the next node is chosen.
Superstep(vals, node, tavily, llm) ==
    LET r == RunNode(node, vals, tavily, llm)
        failed == r.err # "none" \/ Rejected(r.upd)
        written == ApplyWrites(vals, r.upd)
    IN  [failed |-> failed,
         call |-> [node |-> node,
                   err |-> IF r.err = "none" /\ Rejected(r.upd)
                           THEN "InvalidUpdateError" ELSE r.err,
                   upd |-> r.upd, calls |-> r.calls],
         values |-> Checkpoint(failed, vals, written),
         next |-> Checkpoint(failed, node, Successor(node, written))]

\* Where app.invoke stands after a step: it raises what the node raised,
\* returns before a node of interrupt_before and at END, and goes on
\* otherwise.
AfterStep(step) ==
    IF step.failed THEN "error"
    ELSE IF step.next \in interrupt_before \/ step.next = END THEN "loop"
    ELSE "running"

\* One step of the graph inside app.invoke.
RunStep ==
    /\ pc = "running"
    /\ Len(executed) < MaxSteps
    /\ \E tavily \in TavilyFor(next), llm \in LLMFor(next) :
           LET step == Superstep(values, next, tavily, llm)
           IN  /\ last' = step.call
               /\ values' = step.values
               /\ next' = step.next
               /\ pc' = AfterStep(step)
               /\ IF step.failed
                  THEN UNCHANGED <<executed, announced>>
                  ELSE /\ executed' = Append(executed, next)
                       /\ announced' = "none"
    /\ UNCHANGED <<strictWrites, reported, callVars, threadVars>>

ExitWords == {<<"e", "x", "i", "t">>, <<"q", "u", "i", "t">>, <<"b", "y", "e">>}

AnswerLetters == {<<"A">>, <<"B">>, <<"C">>, <<"D">>}

\* app.update_state(config, {"messages": [HumanMessage(content=user_input)]})
UpdateAsAIWrong(vals, user_input) ==
    ApplyWrites(vals, [NoUpdate EXCEPT !.messages = <<AIMessage(user_input)>>])

UpdateTopicWrong(vals, user_input) ==
    ApplyWrites(vals, [NoUpdate EXCEPT !.messages = <<HumanMessage(user_input)>>,
                                       !.topic = user_input])

update_state(vals, user_input) ==
    ApplyWrites(vals, [NoUpdate EXCEPT !.messages = <<HumanMessage(user_input)>>])

NeverOverWrong(pending) == FALSE

\* "if not state_snapshot.next"
SessionOver(pending) == pending = END

ExitAnywhereWrong(pending, user_input) == Lower(user_input) \in ExitWords

\* "if next_node == "receive_topic": ... if user_input.lower() in [...]"
ExitCommand(pending, user_input) ==
    pending = "receive_topic" /\ Lower(user_input) \in ExitWords

AnyAnswerWrong(pending, user_input) == FALSE

\* "elif next_node == "receive_answer": ... if user_input.upper() not in [...]"
InvalidAnswer(pending, user_input) ==
    pending = "receive_answer" /\ Upper(user_input) \notin AnswerLetters

\* What the loop prints at the continue pause: "Starting new topic..." for
\* these replies, "Ending session..." for every other.
AnnouncesNewTopic(user_input) ==
    Lower(user_input) \in {<<"y", "e", "s">>, <<"y">>, <<"s", "i", "m">>, <<"s">>}

\* One pass of the "while True" loop up to its app.invoke(None, config).
LoopIteration ==
    /\ pc = "loop"
    /\ \E user_input \in UserInputs :
           IF SessionOver(next)
           THEN /\ pc' = "completed"
                /\ UNCHANGED <<values, reported, announced>>
           ELSE /\ reported' = reported \cup {next}
                /\ announced' = next
                /\ IF ExitCommand(next, user_input)
                   THEN pc' = "exited" /\ UNCHANGED values
                   ELSE IF InvalidAnswer(next, user_input)
                   THEN pc' = "loop" /\ UNCHANGED values
                   ELSE /\ values' = IF next \in interrupt_before
                                     THEN update_state(values, user_input)
                                     ELSE values
                        /\ pc' = "running"
    /\ UNCHANGED <<next, executed, last, strictWrites, callVars, threadVars>>

Next == StartSession \/ RunStep \/ LoopIteration

Spec == Init /\ [][Next]_vars

-----------------------------------------------------------------------------
(* The session resumed from a checkpoint.  The checkpointer keeps, per     *)
(* thread, the channel values and the node to run next; the graph and the  *)
(* loop go on from whatever it holds.  Every checkpoint the schema admits  *)
(* is taken here, also those a session started by main.py does not reach.  *)

CheckpointTexts == {Absent, None, <<>>, <<"t">>}

CheckpointMessages ==
    {<<>>,
     <<AIMessage(AskContinueText)>>,
     <<AIMessage(AskTopicText), HumanMessage(<<"f", "l", "u">>)>>}

InitCheckpoint ==
    /\ \E m \in CheckpointMessages, t, r, s \in CheckpointTexts :
           values = [EmptyChannels EXCEPT
                        !.messages = m, !.topic = t, !.results = r, !.summary = s]
    /\ \E n \in NodeNames \cup {END} :
           /\ next = n
           /\ pc = IF n \in interrupt_before \cup {END} THEN "loop" ELSE "running"
    /\ executed = <<>>
    /\ last = NoCall
    /\ strictWrites \in BOOLEAN
    /\ reported = {}
    /\ announced = "none"
    /\ NoDirectCall
    /\ NoThreads

InitAny == Init \/ InitCheckpoint

ResumeSpec == InitAny /\ [][Next]_vars

-----------------------------------------------------------------------------
(* The process stopped at a pause and started again.  main() builds the    *)
(* graph anew: create_healthbot_graph makes a new MemorySaver, which keeps *)
(* its checkpoints in the memory of the process, and the session draws a   *)
(* new thread_id and invokes the graph with the initial state.             *)

Restart ==
    /\ pc = "loop"
    /\ values' = EmptyChannels
    /\ next' = START
    /\ pc' = "start"
    /\ executed' = <<>>
    /\ last' = NoCall
    /\ reported' = {}
    /\ announced' = "none"
    /\ UNCHANGED <<strictWrites, callVars, threadVars>>

RestartSpec == Init /\ [][Next \/ Restart]_vars

-----------------------------------------------------------------------------
(* Two sessions on one compiled graph.  Each has its own thread_id in its  *)
(* config; the checkpointer keeps one checkpoint per thread_id, and        *)
(* app.invoke, app.get_state and app.update_state read and write the       *)
(* checkpoint of the thread_id they are given.  The calls of the two       *)
(* sessions interleave in any order.                                       *)

\* thread_id = f"session-{uuid.uuid4().hex[:8]}"
ThreadIds == {"session-a", "session-b"}

PutSharedWrong(saved, thread_id, checkpoint) ==
    [t \in DOMAIN saved |-> checkpoint]

\* The checkpointer saves a checkpoint under the thread_id of the config.
put(saved, thread_id, checkpoint) == [saved EXCEPT ![thread_id] = checkpoint]

ThreadInputs == {<<>>, <<"f", "l", "u">>, <<"B">>, <<"b", "y", "e">>}

ThreadTavily(node) ==
    IF node = "search_tavily"
    THEN {[ok |-> FALSE, results |-> <<>>], [ok |-> TRUE, results |-> <<>>]}
             \cup {[ok |-> TRUE, results |-> <<r>>] : r \in ResultItems}
    ELSE {[ok |-> FALSE, results |-> <<>>]}

ThreadLLM(node) ==
    IF node \in {"summarize", "create_quiz", "grade_answer"}
    THEN {[ok |-> FALSE, text |-> <<>>], [ok |-> TRUE, text |-> <<"T">>]}
    ELSE {[ok |-> FALSE, text |-> <<>>]}

InitThreads ==
    /\ values = EmptyChannels
    /\ next = START
    /\ pc = "threads"
    /\ executed = <<>>
    /\ last = NoCall
    /\ strictWrites \in BOOLEAN
    /\ reported = {}
    /\ announced = "none"
    /\ NoDirectCall
    /\ storage = [t \in ThreadIds |-> [values |-> EmptyChannels, next |-> START]]
    /\ callers = [t \in ThreadIds |-> "start"]

\* app.invoke(initial_state, config) of the session with this thread_id:
\* the input is written and the entry point is pending.
ThreadStart(t) ==
    /\ callers[t] = "start"
    /\ \E run_id \in RunIds :
           storage' = put(storage, t,
                          [values |-> ApplyWrites(EmptyChannels,
                                                  [NoUpdate EXCEPT !.run_id = run_id]),
                           next |-> EntryPoint])
    /\ callers' = [callers EXCEPT ![t] = "running"]
    /\ UNCHANGED <<sessionVars, callVars>>

\* One step of the graph inside an app.invoke with this thread_id.
ThreadStep(t) ==
    /\ callers[t] = "running"
    /\ \E tavily \in ThreadTavily(storage[t].next), llm \in ThreadLLM(storage[t].next) :
           LET step == Superstep(storage[t].values, storage[t].next, tavily, llm)
           IN  /\ storage' = put(storage, t, [values |-> step.values, next |-> step.next])
               /\ callers' = [callers EXCEPT ![t] = AfterStep(step)]
    /\ UNCHANGED <<sessionVars, callVars>>

\* One pass of the loop of the session with this thread_id.
ThreadLoop(t) ==
    /\ callers[t] = "loop"
    /\ \E user_input \in ThreadInputs :
           LET pending == storage[t].next
           IN  IF SessionOver(pending)
               THEN /\ callers' = [callers EXCEPT ![t] = "completed"]
                    /\ UNCHANGED storage
               ELSE IF ExitCommand(pending, user_input)
               THEN /\ callers' = [callers EXCEPT ![t] = "exited"]
                    /\ UNCHANGED storage
               ELSE IF InvalidAnswer(pending, user_input)
               THEN UNCHANGED <<storage, callers>>
               ELSE /\ storage' = put(storage, t,
                                      [values |-> update_state(storage[t].values, user_input),
                                       next |-> pending])
                    /\ callers' = [callers EXCEPT ![t] = "running"]
    /\ UNCHANGED <<sessionVars, callVars>>

ThreadsSpec ==
    InitThreads
        /\ [][\E t \in ThreadIds : ThreadStart(t) \/ ThreadStep(t) \/ ThreadLoop(t)]_vars

-----------------------------------------------------------------------------
(* Direct calls of the functions of nodes.py, as tests/test_nodes.py makes *)
(* them: on a state dictionary that holds every field.                     *)

AnswerAlphabet == {"A", "b", "C", "d", "X", "1", "4", "5", " ", "\t"}

CaseMasks(n) == {m \in SUBSET (1..n) : Cardinality(m) <= 1 \/ Cardinality(m) >= n - 1}

\* word with the letters at the places of mask in upper case
Cased(word, mask) ==
    [i \in 1..Len(word) |-> IF i \in mask THEN UpperChar(word[i]) ELSE word[i]]

OptionWords ==
    {Cased(<<"o", "p", "t", "i", "o", "n">>, m) : m \in SUBSET (1..6)}
        \cup {Cased(<<"a", "l", "t", "e", "r", "n", "a", "t", "i", "v", "e">>, m) :
                  m \in CaseMasks(11)}

Pads == {<<>>, <<" ">>, <<"\t", "\n">>}

OptionPhrases ==
    {pre \o w \o <<" ", x>> \o post :
         pre \in Pads, post \in Pads, w \in OptionWords,
         x \in {"a", "b", "c", "d", "A", "B", "C", "D"}}

ExtraAnswers ==
    {<<"i", "n", "v", "a", "l", "i", "d">>,
     <<"A", " ", "i", "s", " ", "c", "o", "r", "r", "e", "c", "t">>,
     <<"b", " ", "s", "e", "e", "m", "s">>,
     <<"o", "p", "t", "i", "o", "n", " ", "e">>,
     <<"o", "p", "t", "i", "o", "n", "a">>,
     <<"o", "p", "t", "i", "o", "n", " ", " ", "a">>,
     <<"m", "y", " ", "o", "p", "t", "i", "o", "n", " ", "b">>,
     <<"d", "o", "n", "e", ":", " ", "o", "p", "t", "i", "o", "n", " ", "c">>,
     <<"o", "p", "t", "i", "o", "n", " ", "d", " ", "o", "r", " ",
       "o", "p", "t", "i", "o", "n", " ", "a">>,
     <<"a", "l", "t", "e", "r", "n", "a", "t", "i", "v", "e">>,
     <<"1", "0">>, <<" ", "2", "\n">>, <<"\t", "3", " ">>}

AnswerInputs == SeqsUpTo(AnswerAlphabet, MaxLen) \cup OptionPhrases \cup ExtraAnswers

\* The state the tests build.
BaseTestState ==
    [messages |-> <<>>, topic |-> <<"diabetes">>, results |-> <<"Some results">>,
     summary |-> <<"Some summary">>, quiz_question |-> <<"Test question?">>,
     quiz_answer |-> None, grade |-> NoneGrade, continue_learning |-> None,
     has_results |-> PyTrue, sources_count |-> PyInt(3),
     run_id |-> <<"test-run-123">>]

ContinueValues ==
    {Absent, None, PyTrue, PyFalse, PyInt(0), PyInt(1), <<>>,
     <<"n", "o">>, <<"y", "e", "s">>, <<"F", "a", "l", "s", "e">>}

RouterStates ==
    {[BaseTestState EXCEPT !.continue_learning = c, !.quiz_answer = a, !.topic = t] :
         c \in ContinueValues, a \in {None, <<"A">>, <<>>},
         t \in {None, <<"diabetes">>}}

InitCall ==
    /\ values = EmptyChannels
    /\ next = START
    /\ pc = "direct"
    /\ executed = <<>>
    /\ last = NoCall
    /\ strictWrites = FALSE
    /\ reported = {}
    /\ announced = "none"
    /\ NoDirectCall
    /\ NoThreads

CallNormalize ==
    /\ callFn = "none"
    /\ \E raw \in AnswerInputs :
           /\ callArg' = raw
           /\ callRet' = _normalize_quiz_answer(raw)
    /\ callFn' = "_normalize_quiz_answer"
    /\ UNCHANGED graphVars

CallReceiveAnswer ==
    /\ callFn = "none"
    /\ \E raw \in AnswerInputs, role \in {"human", "ai"} :
           LET state == [BaseTestState EXCEPT
                            !.messages = <<[role |-> role, content |-> raw]>>]
           IN  /\ callArg' = state
               /\ callRet' = receive_answer(state)
    /\ callFn' = "receive_answer"
    /\ UNCHANGED graphVars

CallShouldContinue ==
    /\ callFn = "none"
    /\ \E state \in RouterStates :
           /\ callArg' = state
           /\ callRet' = should_continue(state)
    /\ callFn' = "should_continue"
    /\ UNCHANGED graphVars

ContinueWords ==
    {<<"y", "e", "s">>, <<"y">>, <<"s", "i", "m">>, <<"s">>, <<"s", "i">>,
     <<"y", "e", "a", "h">>, <<"y", "e", "p">>, <<"n", "o">>, <<"o", "k">>}

OtherReplies ==
    {<<>>, <<" ">>, <<"y", "e", "s", " ", "p", "l", "e", "a", "s", "e">>,
     <<"o", "h", " ", "y", "e", "s">>, <<"y", "e", "s", "s">>, <<"y", "e">>,
     <<"y", " ", "e", " ", "s">>, <<"y", "e", "s", ".">>, <<"s", "i", "m", "!">>,
     <<"n">>, <<"s", "u", "r", "e">>, <<"t", "r", "u", "e">>, <<"1">>,
     <<"n", "o", "t", " ", "y", "e", "t">>}

ContinueInputs ==
    {pre \o Cased(w, m) \o post :
         pre \in Pads, post \in Pads,
         w \in ContinueWords, m \in SUBSET (1..MaxLen) \cup {1..4}}
        \cup OtherReplies

TopicInputs ==
    {pre \o t \o post : pre \in Pads, post \in Pads, t \in UserInputs}

CallReceiveTopic ==
    /\ callFn = "none"
    /\ \E text \in TopicInputs, role \in {"human", "ai"} :
           LET state == [BaseTestState EXCEPT
                            !.topic = None,
                            !.messages = <<AIMessage(AskTopicText),
                                           [role |-> role, content |-> text]>>]
           IN  /\ callArg' = state
               /\ callRet' = receive_topic(state)
    /\ callFn' = "receive_topic"
    /\ UNCHANGED graphVars

CallReceiveContinue ==
    /\ callFn = "none"
    /\ \E text \in ContinueInputs, role \in {"human", "ai"} :
           LET state == [BaseTestState EXCEPT
                            !.quiz_answer = <<"A">>,
                            !.messages = <<AIMessage(AskContinueText),
                                           [role |-> role, content |-> text]>>]
           IN  /\ callArg' = state
               /\ callRet' = receive_continue(state)
    /\ callFn' = "receive_continue"
    /\ UNCHANGED graphVars

SearchStates ==
    {[BaseTestState EXCEPT !.topic = t, !.has_results = h, !.results = None] :
         t \in {None, <<>>, <<"f", "l", "u">>},
         h \in {None, PyTrue, PyFalse}}

CallSearch ==
    /\ callFn = "none"
    /\ \E state \in SearchStates, tavily \in SearchOutcomes :
           /\ callArg' = state
           /\ callRet' = search_tavily(state, tavily)
    /\ callFn' = "search_tavily"
    /\ UNCHANGED graphVars

\* What the model answers to the evaluation prompt: a JSON document or
\* other text, bare, padded, or inside a markdown code block.
GradeBodies ==
    {<<d>> : d \in JsonDocs}
        \cup {<<" ", d, "\n">> : d \in {"{score:8,feedback,citations}", "3"}}
        \cup {<<>>, <<"n", "o", "t", " ", "j", "s", "o", "n">>,
              <<"{", "s", "c", "o", "r", "e">>}

GradeResponses ==
    GradeBodies
        \cup {FENCE_JSON \o <<"\n">> \o b \o <<"\n">> \o FENCE : b \in GradeBodies}
        \cup {<<"H", "e", "r", "e", ":", "\n">> \o FENCE \o b \o FENCE \o <<"\n", "!">> :
                  b \in GradeBodies}

\* A JSON object with the three keys in a code block, with text around it.
GradeObjects == {"{score:3,feedback,citations}", "{score:high,feedback,citations}"}

Prefaces ==
    {<<>>, <<"H", "e", "r", "e", ":", "\n">>,
     <<"s", "e", "e", " ">> \o FENCE \o <<"x">> \o FENCE \o <<"\n">>}

Afterwords == {<<>>, <<"\n", "!">>, <<"j", "s", "o", "n">>}

FencedObject(preface, opening, doc, afterword) ==
    preface \o opening \o <<"\n", doc, "\n">> \o FENCE \o afterword

FencedObjects ==
    {FencedObject(preface, opening, doc, afterword) :
         preface \in Prefaces, opening \in {FENCE, FENCE_JSON},
         doc \in GradeObjects, afterword \in Afterwords}

GradeOutcomes ==
    {[ok |-> FALSE, text |-> <<>>]}
        \cup {[ok |-> TRUE, text |-> t] : t \in GradeResponses \cup FencedObjects}

GradeStates ==
    {[BaseTestState EXCEPT !.quiz_question = q, !.quiz_answer = a, !.summary = m] :
         q \in {None, <<"Test question?">>},
         a \in {None, <<>>, <<"A">>},
         m \in {None, <<>>, <<"Some summary">>}}

CallGradeAnswer ==
    /\ callFn = "none"
    /\ \E state \in GradeStates, llm \in GradeOutcomes :
           /\ callArg' = [state |-> state, llm |-> llm]
           /\ callRet' = grade_answer(state, llm)
    /\ callFn' = "grade_answer"
    /\ UNCHANGED graphVars

\* The grades present_grade is given: what grade_answer returns for each
\* answer of the model, a dictionary for every score, no grade, and {}.
Grades ==
    {grade_answer(state, llm).upd.grade : state \in GradeStates, llm \in GradeOutcomes}
        \cup {GradeDict(PyInt(n), <<"f">>, c) : n \in 0..11, c \in {<<>>, << <<"c">> >>}}
        \cup {NoneGrade, GradeValue("dict", {}, None, <<>>, <<>>)}

CallPresentGrade ==
    /\ callFn = "none"
    /\ \E grade \in Grades :
           LET state == [BaseTestState EXCEPT !.quiz_answer = <<"A">>, !.grade = grade]
           IN  /\ callArg' = state
               /\ callRet' = present_grade(state)
    /\ callFn' = "present_grade"
    /\ UNCHANGED graphVars

\* The states a node is called on: the test state where the cycle stands
\* at the node, with the input of the node set or missing.
StepStates ==
    {[BaseTestState EXCEPT
          !.messages = <<AIMessage(AskTopicText), m>>, !.summary = text,
          !.quiz_question = text, !.quiz_answer = a, !.grade = g] :
         m \in {HumanMessage(<<" ", "B", " ">>), AIMessage(<<"B">>)},
         text \in {None, <<"Some text">>},
         a \in {None, <<"B">>},
         g \in {NoneGrade, GradeDict(PyInt(6), <<"f">>, <<>>)}}

CallStep ==
    /\ callFn = "none"
    /\ \E node \in NodeNames, state \in StepStates :
           \E tavily \in TavilyFor(node), llm \in LLMFor(node) :
               /\ callArg' = [node |-> node, state |-> state]
               /\ callRet' = RunNode(node, state, tavily, llm)
    /\ callFn' = "step"
    /\ UNCHANGED graphVars

NextCall ==
    \/ CallStep
    \/ CallPresentGrade
    \/ CallNormalize
    \/ CallReceiveAnswer
    \/ CallShouldContinue
    \/ CallReceiveTopic
    \/ CallReceiveContinue
    \/ CallSearch
    \/ CallGradeAnswer

CallSpec == InitCall /\ [][NextCall]_vars

-----------------------------------------------------------------------------
(* Properties.                                                             *)

Order ==
    <<"ask_topic", "receive_topic", "search_tavily", "summarize",
      "present_summary", "create_quiz", "present_quiz", "receive_answer",
      "grade_answer", "present_grade", "ask_continue", "receive_continue">>

PlaceOf(step) == CHOOSE i \in 1..12 : Order[i] = step

IsPrefix(s, t) == Len(s) <= Len(t) /\ SubSeq(t, 1, Len(s)) = s

JustRan(step) ==
    /\ executed # <<>>
    /\ executed[Len(executed)] = step
    /\ last.node = step
    /\ last.err = "none"

PauseSteps == {"receive_topic", "receive_answer", "receive_continue"}

ValidAnswers == {<<"A">>, <<"B">>, <<"C">>, <<"D">>, <<>>}

\* C1: the steps run only in the fixed order: a session starts at ask_topic,
\* the step that runs is the one pending step, it is recorded once, and the
\* step pending after it is the next of the list (after receive_continue:
\* ask_topic or the end), so that none is skipped or repeated in a cycle.
C1_FixedOrder ==
    [][/\ pc = "start" => next' = Order[1]
       /\ executed' # executed =>
              /\ next \in {Order[i] : i \in 1..12}
              /\ executed' = Append(executed, next)
              /\ IF next = Order[12]
                 THEN next' \in {Order[1], END}
                 ELSE next' = Order[PlaceOf(next) + 1]
       /\ (next' # next /\ pc # "start") => executed' # executed]_vars

C1_Witness ==
    executed = <<"ask_topic", "receive_topic", "search_tavily", "summarize",
                 "present_summary", "create_quiz">>

\* C2: the session pauses before receive_topic, receive_answer and
\* receive_continue and before no other step: one of the three runs only
\* after the loop was told it is pending, and no other step is ever reported.
C2_PausesBeforeInputSteps ==
    /\ reported \subseteq PauseSteps
    /\ pc = "loop" => next \in PauseSteps \cup {END}
    /\ (pc = "running" /\ next \in PauseSteps) => announced = next
    /\ (pc = "running" /\ next \notin PauseSteps) => announced = "none"

C2_Witness ==
    /\ JustRan("receive_answer")
    /\ "receive_answer" \in reported
    /\ LastMessage(values) = HumanMessage(<<"B">>)

\* C3 (as claimed): after receive_continue has consumed a human message, the
\* step pending is ask_topic with topic null when the message is affirmative
\* ("yes", "Sim"), and the session is at its end otherwise.
C3_BranchAfterContinue ==
    (JustRan("receive_continue") /\ LastMessage(values).role = "human") =>
        IF Lower(Strip(LastMessage(values).content))
               \in {<<"y", "e", "s">>, <<"s", "i", "m">>}
        THEN next = "ask_topic" /\ values.topic = None
        ELSE next = END

\* C4 (as claimed): should_continue returns "ask_topic" exactly when
\* continue_learning is the boolean true, and "end" for every other value.
C4_ExactlyTrue ==
    callFn = "should_continue" =>
        (callRet = "ask_topic") = (callArg.continue_learning = PyTrue)

\* C4 (amended): should_continue returns "ask_topic" exactly when
\* continue_learning has a true truth value (true, a non-zero number, a
\* non-empty string), "end" when it is false, null, absent, 0 or empty, and
\* nothing else; what it returns is a route, not an update of the state.
C4_RouterTruthValue ==
    callFn = "should_continue" =>
        /\ callRet \in {"ask_topic", "end"}
        /\ (callRet = "end") =
               (callArg.continue_learning
                    \in {PyFalse, None, Absent, PyInt(0), <<>>})

C4_Witness ==
    /\ callFn = "should_continue"
    /\ callArg.continue_learning = <<"n", "o">>
    /\ callRet = "ask_topic"

ResetFields ==
    {"topic", "results", "summary", "quiz_question", "quiz_answer"}

\* state.get(k) is None: the key holds None, or the state has no such key.
IsNull(v) == v \in {None, Absent}

\* C5: a receive_continue step that sets continue_learning to true leaves
\* topic, results, summary, quiz_question, quiz_answer and grade null, and
\* messages and run_id as they were; one that sets it to false changes none
\* of the six (nor messages, nor run_id).
C5_ResetOnContinue ==
    [][executed' = Append(executed, "receive_continue") =>
           /\ values'.messages = values.messages
           /\ values'.run_id = values.run_id
           /\ last'.upd.continue_learning \in {PyTrue, PyFalse}
           /\ IF last'.upd.continue_learning = PyTrue
              THEN /\ values'.topic = None
                   /\ values'.results = None
                   /\ values'.summary = None
                   /\ \A k \in ResetFields : IsNull(values'[k])
                   /\ values'.grade.kind \in {"none", "absent"}
              ELSE /\ \A k \in ResetFields : values'[k] = values[k]
                   /\ values'.grade = values.grade]_vars

C5_Witness ==
    /\ JustRan("receive_continue")
    /\ last.upd.continue_learning = PyTrue
    /\ values.messages =
           <<AIMessage(AskTopicText), HumanMessage(<<"f", "l", "u">>),
             HumanMessage(<<"y", "e", "s">>)>>
    /\ values.topic = None
    /\ values.summary = None

\* C6: messages is append-only: over every step and every external update
\* the transcript before is a prefix of the transcript after.
C6_MessagesAppendOnly ==
    [][IsPrefix(values.messages, values'.messages)]_vars

C6_Witness ==
    /\ Len(values.messages) >= 5
    /\ \E i \in 1..Len(values.messages) : values.messages[i].role = "human"
    /\ JustRan("present_summary")

\* C7 (as claimed): every field a step returns is in the session state
\* after the step, with the value returned, and the step that reads it
\* finds it: present_quiz finds the quiz_question create_quiz wrote.
C7_UpdatesAreStored ==
    [][/\ executed' # executed =>
              /\ \A k \in KeysOf(last'.upd) \ {"messages", "grade"} :
                     values'[k] = last'.upd[k]
              /\ "grade" \in KeysOf(last'.upd) => values'.grade = last'.upd.grade
              /\ values'.messages = values.messages \o last'.upd.messages
       /\ (last'.node = "present_quiz"
               /\ \E i \in 1..Len(executed) : executed[i] = "create_quiz") =>
              last'.err = "none"]_vars

\* C8: what receive_answer gives for quiz_answer is one of A, B, C, D or the
\* empty string, whatever the content and the role of the last message; the
\* quiz_answer of the session state is that or null.
C8_AnswerIsLetterOrEmpty ==
    /\ IsNull(values.quiz_answer) \/ values.quiz_answer \in ValidAnswers
    /\ callFn = "receive_answer" =>
           /\ callRet.err = "none"
           /\ KeysOf(callRet.upd) = {"quiz_answer"}
           /\ callRet.upd.quiz_answer \in ValidAnswers

C8_Witness ==
    /\ callFn = "receive_answer"
    /\ callArg.messages =
           <<AIMessage(<<"m", "y", " ", "o", "p", "t", "i", "o", "n", " ", "b">>)>>
    /\ callRet.upd.quiz_answer = <<>>

Letters == <<"A", "B", "C", "D">>

\* raw is X, x, n, "option X" or "alternative X" in some letter case and
\* with some whitespace around it
IsFormOf(raw, i) ==
    Upper(Strip(raw))
        \in {<<Letters[i]>>, <<Digits[i + 1]>>,
             <<"O", "P", "T", "I", "O", "N", " ", Letters[i]>>,
             <<"A", "L", "T", "E", "R", "N", "A", "T", "I", "V", "E", " ",
               Letters[i]>>}

\* C9: for each letter X of A..D with its digit n, normalization gives X
\* for X, x, n, "option X" and "alternative X" in any letter case and with
\* any whitespace around, and receive_answer on a human message with such a
\* content gives quiz_answer = X.
C9_RecognizedForms ==
    \A i \in 1..4 :
        /\ (callFn = "_normalize_quiz_answer" /\ IsFormOf(callArg, i)) =>
               callRet = <<Letters[i]>>
        /\ (callFn = "receive_answer"
                /\ callArg.messages[1].role = "human"
                /\ IsFormOf(callArg.messages[1].content, i)) =>
               callRet.upd.quiz_answer = <<Letters[i]>>

C9_Witness ==
    /\ callFn = "receive_answer"
    /\ callArg.messages =
           <<HumanMessage(<<"\t", "\n", "a", "l", "t", "e", "r", "n", "a", "t",
                            "i", "v", "E", " ", "c", " ">>)>>
    /\ callRet.upd.quiz_answer = <<"C">>

Unrecognized(raw) ==
    LET a == Strip(Upper(raw))
    IN  /\ a \notin {<<"A">>, <<"B">>, <<"C">>, <<"D">>,
                     <<"1">>, <<"2">>, <<"3">>, <<"4">>}
        /\ \A i \in 1..4 :
               /\ ~Contains(a, <<"O", "P", "T", "I", "O", "N", " ", Letters[i]>>)
               /\ ~Contains(a, <<"A", "L", "T", "E", "R", "N", "A", "T", "I",
                                 "V", "E", " ", Letters[i]>>)
        /\ \A i \in 1..4 : ~StartsWith(a, <<Letters[i]>>)

\* C10: an input that after uppercasing and trimming is none of A, B, C, D,
\* 1, 2, 3, 4, holds no "OPTION X" or "ALTERNATIVE X" and does not start
\* with A, B, C or D normalizes to the empty string; normalization gives
\* nothing outside A, B, C, D and the empty string.
C10_UnrecognizedIsEmpty ==
    callFn = "_normalize_quiz_answer" =>
        /\ callRet \in ValidAnswers
        /\ Unrecognized(callArg) => callRet = <<>>

C10_Witness ==
    /\ callFn = "_normalize_quiz_answer"
    /\ callArg = <<"i", "n", "v", "a", "l", "i", "d">>
    /\ callRet = <<>>

\* the message a receive step was called on
CalledOn == callArg.messages[Len(callArg.messages)]

\* C11: receive_continue on a human last message sets continue_learning to
\* true exactly when the text, trimmed and lowercased, is one of yes, y,
\* sim, s, si, yeah, yep, and to false for every other text.
C11_AffirmativeWords ==
    (callFn = "receive_continue" /\ CalledOn.role = "human") =>
        /\ callRet.err = "none"
        /\ callRet.upd.continue_learning \in {PyTrue, PyFalse}
        /\ (callRet.upd.continue_learning = PyTrue) =
               (Lower(Strip(CalledOn.content))
                    \in {<<"y", "e", "s">>, <<"y">>, <<"s", "i", "m">>, <<"s">>,
                         <<"s", "i">>, <<"y", "e", "a", "h">>, <<"y", "e", "p">>})

C11_Witness ==
    /\ callFn = "receive_continue"
    /\ CalledOn = HumanMessage(<<"\t", "\n", "Y", "E", "a", "h", " ">>)
    /\ callRet.upd.continue_learning = PyTrue

\* grade_answer was called with its three inputs set and the model answered
Graded ==
    /\ callFn = "grade_answer"
    /\ callArg.llm.ok
    /\ Truthy(callArg.state.quiz_question)
    /\ Truthy(callArg.state.quiz_answer)
    /\ Truthy(callArg.state.summary)

\* the response is no JSON, or a JSON object without one of the three keys
Unusable(response) ==
    LET parsed == JsonLoads(Strip(Unfence(response)))
    IN  \/ ~parsed.ok
        \/ parsed.value.kind = "dict" /\ ~(GradeKeys \subseteq parsed.value.keys)

\* C12 (as claimed): after every grade_answer step grade.score is an
\* integer from 0 to 10, whatever the model answered.
C12_ScoreInRange ==
    (callFn = "grade_answer" /\ callRet.err = "none") =>
        \E n \in 0..10 : callRet.upd.grade.score = PyInt(n)

\* C13 (as claimed): when the response is no JSON or lacks one of score,
\* feedback, citations, the grade is score 5, the response as received as
\* feedback, and no citations; also when the response came in a code block.
C13_FallbackKeepsRawResponse ==
    (Graded /\ Unusable(callArg.llm.text)) =>
        callRet = Returned([NoUpdate EXCEPT
                               !.grade = GradeDict(PyInt(5), callArg.llm.text, <<>>)],
                           LLMCalls(TRUE))

\* C13 (amended): in that case the grade is score 5, no citations, and as
\* feedback the response without its code block delimiters: the untrimmed
\* text between the opening delimiter and the next one, or the response as
\* received when it holds no code block.
C13_FallbackKeepsUnfencedText ==
    (Graded /\ Unusable(callArg.llm.text)) =>
        /\ callRet.err = "none"
        /\ KeysOf(callRet.upd) = {"grade"}
        /\ callRet.upd.grade.kind = "dict"
        /\ callRet.upd.grade.keys = {"score", "feedback", "citations"}
        /\ callRet.upd.grade.score = PyInt(5)
        /\ callRet.upd.grade.citations = <<>>
        /\ callRet.upd.grade.feedback =
               IF Contains(callArg.llm.text, FENCE)
               THEN Unfence(callArg.llm.text)
               ELSE callArg.llm.text

C13_Witness ==
    /\ Graded
    /\ callArg.llm.text =
           FENCE_JSON \o <<"\n", "n", "o", "t", " ", "j", "s", "o", "n", "\n">> \o FENCE
    /\ callRet.upd.grade.feedback =
           <<"\n", "n", "o", "t", " ", "j", "s", "o", "n", "\n">>

\* C14 (as claimed): grade_answer does not raise because of what the model
\* answered: for every response text it returns a grade.
C14_NoRaiseOnResponse ==
    Graded => (callRet.err = "none" /\ callRet.upd.grade.kind = "dict")

\* the input fields each step checks before it works
Requires(step) ==
    CASE step = "search_tavily" -> {"topic"}
      [] step = "summarize" -> {"topic", "results"}
      [] step = "present_summary" -> {"summary"}
      [] step = "create_quiz" -> {"summary", "topic"}
      [] step = "present_quiz" -> {"quiz_question"}
      [] step = "grade_answer" -> {"quiz_question", "quiz_answer", "summary"}
      [] step = "present_grade" -> {"grade"}
      [] OTHER -> {}

\* the field holds no value: null, empty, or never written
Unset(vals, f) ==
    IF f = "grade"
    THEN vals.grade.kind \in {"none", "absent"}
             \/ (vals.grade.kind = "dict" /\ vals.grade.keys = {})
    ELSE vals[f] \in {None, <<>>, Absent}

\* what the step gives when an input is missing
HandledMissing(step, upd) ==
    CASE step = "search_tavily" -> upd.results = <<"Error: No topic provided.">>
      [] step = "summarize" ->
             upd.summary = <<"Error: Missing data for summarization.">>
      [] step = "create_quiz" ->
             upd.quiz_question = <<"Error: Could not create quiz.">>
      [] step = "grade_answer" ->
             /\ upd.grade.kind = "dict"
             /\ upd.grade.score = PyInt(0)
             /\ upd.grade.citations = <<>>
      [] OTHER -> Len(upd.messages) = 1 /\ upd.messages[1].role = "ai"

\* C15 (as claimed): a step that finds a required input null or empty does
\* not raise and does not end the session: it gives its error value or
\* appends its one error message, calls no service, and the next step of
\* the order is pending after it.
C15_MissingInputHandled ==
    [][(pc = "running" /\ \E f \in Requires(next) : Unset(values, f)) =>
           /\ pc' # "error"
           /\ last'.err = "none"
           /\ last'.calls = <<>>
           /\ HandledMissing(next, last'.upd)
           /\ executed' = Append(executed, next)
           /\ next' = Order[PlaceOf(next) + 1]]_vars

\* C16 (as claimed): search with an empty or null topic does not call the
\* search service, and has_results is false in the state after the step,
\* whatever it was before.
C16_EmptyTopicHasNoResults ==
    (callFn = "search_tavily" /\ callArg.topic \in {None, <<>>}) =>
        /\ callRet.err = "none"
        /\ callRet.calls = <<>>
        /\ (IF callRet.upd.has_results # Absent
            THEN callRet.upd.has_results
            ELSE callArg.has_results) = PyFalse

\* C17: a receive step whose last message is no human message does not
\* raise, appends no message and writes only its fallback: topic "general
\* health", quiz_answer "", continue_learning false (which routes to end).
C17_NonHumanFallback ==
    (callFn \in {"receive_topic", "receive_answer", "receive_continue"}
         /\ CalledOn.role # "human") =>
        /\ callRet.err = "none"
        /\ callRet.upd.messages = <<>>
        /\ callFn = "receive_topic" =>
               /\ KeysOf(callRet.upd) = {"topic"}
               /\ callRet.upd.topic = <<"general health">>
        /\ callFn = "receive_answer" =>
               /\ KeysOf(callRet.upd) = {"quiz_answer"}
               /\ callRet.upd.quiz_answer = <<>>
        /\ callFn = "receive_continue" =>
               /\ KeysOf(callRet.upd) = {"continue_learning"}
               /\ callRet.upd.continue_learning = PyFalse
               /\ should_continue([callArg EXCEPT
                                      !.continue_learning =
                                          callRet.upd.continue_learning]) = "end"

C17_Witness ==
    /\ callFn = "receive_topic"
    /\ CalledOn = AIMessage(<<"f", "l", "u">>)
    /\ callRet.upd.topic = <<"general health">>

\* C18: a session paused before a step is resumed only after one human
\* message was supplied; the step that then runs is the paused one and the
\* message is the last of the transcript it reads.  Only the start of a
\* session runs the graph with no message supplied: ask_topic runs and the
\* session pauses before receive_topic.
C18_ResumeRunsPausedStep ==
    [][/\ (pc = "loop" /\ pc' = "running") =>
              /\ next \in PauseSteps
              /\ next' = next
              /\ Len(values'.messages) = Len(values.messages) + 1
              /\ LastMessage(values').role = "human"
       /\ (pc = "running" /\ next \in PauseSteps) =>
              /\ LastMessage(values).role = "human"
              /\ last'.node = next
              /\ executed' = Append(executed, next) \/ pc' = "error"
              /\ (next = "receive_topic" /\ pc' # "error") =>
                     last'.upd.topic = Strip(LastMessage(values).content)
       /\ pc = "start" =>
              /\ pc' = "running"
              /\ next' = "ask_topic"
              /\ values'.messages = <<>>
       /\ (pc = "running" /\ next = "ask_topic") =>
              /\ executed' = Append(executed, "ask_topic")
              /\ next' = "receive_topic"
              /\ pc' = "loop"]_vars

C18_Witness ==
    /\ executed = <<"ask_topic", "receive_topic">>
    /\ last.node = "receive_topic"
    /\ last.upd.topic = <<"f", "l", "u">>
    /\ values.messages[2] = HumanMessage(<<"f", "l", "u">>)

\* C19: an external update at a pause appends exactly one human entry to
\* messages and changes no other field; the pending step stays the paused
\* one and no step has run by it.
C19_UpdateAppendsOneHumanMessage ==
    [][(pc = "loop" /\ values' # values) =>
           /\ Len(values'.messages) = Len(values.messages) + 1
           /\ SubSeq(values'.messages, 1, Len(values.messages)) = values.messages
           /\ LastMessage(values').role = "human"
           /\ LastMessage(values').content \in UserInputs
           /\ \A k \in StateKeys \ {"messages"} : values'[k] = values[k]
           /\ next \in PauseSteps
           /\ next' = next
           /\ executed' = executed]_vars

C19_Witness ==
    /\ pc = "running"
    /\ next = "receive_continue"
    /\ values.topic = <<"t">>
    /\ values.messages =
           <<AIMessage(AskContinueText), HumanMessage(<<"n", "o">>)>>

\* C20: a session whose pending step is the end stays there: the loop reads
\* that nothing is pending and stops; no step runs, the state is not
\* changed, and nothing happens after the loop has stopped.
C20_TerminalStaysTerminal ==
    [][/\ next = END =>
              /\ pc = "loop"
              /\ pc' = "completed"
              /\ next' = END
              /\ values' = values
              /\ executed' = executed
              /\ reported' = reported
       /\ pc # "completed"]_vars

C20_Witness ==
    /\ pc = "completed"
    /\ next = END
    /\ JustRan("receive_continue")
    /\ LastMessage(values) = HumanMessage(<<"n", "o">>)

\* C21: when the step that runs during a resume raises, the thread keeps the
\* checkpoint of the last completed step: the channel values, the pending
\* step and the record of completed steps are as before the failing step,
\* nothing of that step is stored, and the step that raised is again the
\* pending one, as at the resume that ran it.
C21_FailedStepKeepsCheckpoint ==
    [][pc' = "error" =>
           /\ pc = "running"
           /\ last'.node = next
           /\ last'.err # "none"
           /\ values' = values
           /\ next' = next
           /\ next' \in NodeNames
           /\ executed' = executed]_vars

C21_Witness ==
    /\ pc = "error"
    /\ last.node = "summarize"
    /\ last.err = "ServiceError"
    /\ next = "summarize"
    /\ values.topic = <<"f", "l", "u">>
    /\ values.summary = Absent
    /\ executed = <<"ask_topic", "receive_topic", "search_tavily">>

\* The last node call made an external call that failed.
ServiceFailed(call) == \E i \in DOMAIN call.calls : ~call.calls[i].ok

ServiceSteps == {"search_tavily", "summarize", "create_quiz", "grade_answer"}

\* C22: when the search service or the LLM fails inside search_tavily,
\* summarize, create_quiz or grade_answer, the step raises instead of
\* returning: it gives no update and no placeholder, the exception leaves
\* app.invoke with the step not completed and nothing stored, no other step
\* runs after it, and the loop is left for the handler that reports the
\* error and ends the session.
C22_ServiceFailurePropagates ==
    [][/\ (pc = "running" /\ ServiceFailed(last')) =>
              /\ last'.node \in ServiceSteps
              /\ last'.node = next
              /\ last'.err = "ServiceError"
              /\ last'.upd = NoUpdate
              /\ pc' = "error"
              /\ values' = values
              /\ executed' = executed
       /\ pc # "error"]_vars

C22_Witness ==
    /\ pc = "error"
    /\ last.node = "create_quiz"
    /\ last.err = "ServiceError"
    /\ last.calls = LLMCalls(FALSE)
    /\ executed # <<>>
    /\ executed[Len(executed)] = "present_summary"
    /\ values.messages # <<>>
    /\ LastMessage(values) = AIMessage(values.summary)

\* A call or an update of this session happened: its checkpoint or the
\* place of its loop changed.
ActedOn(t) == storage'[t] # storage[t] \/ callers'[t] # callers[t]

\* C23: sessions with distinct thread identifiers are independent: however
\* the calls and the updates of two sessions interleave, a step or an update
\* of one session leaves the channel values and the pending step of the
\* other session, and the place where its loop stands, as they were.
C23_ThreadsIndependent ==
    [][\A t \in ThreadIds :
           ActedOn(t) =>
               \A u \in ThreadIds \ {t} :
                   /\ storage'[u] = storage[u]
                   /\ callers'[u] = callers[u]]_vars

C23_Witness ==
    /\ callers = [t \in ThreadIds |-> IF t = "session-a" THEN "error" ELSE "loop"]
    /\ storage["session-a"].next = "summarize"
    /\ storage["session-a"].values.topic = <<"f", "l", "u">>
    /\ storage["session-b"].next = "receive_topic"
    /\ storage["session-b"].values.messages = <<AIMessage(AskTopicText)>>

\* C25 (as claimed): the thread's Session State is durable: when the process
\* is restarted at a pause, the channel values and the pending step of the
\* thread are found again as they were, and the session goes on from the
\* paused step.
C25_DurableAcrossRestart ==
    [][pc' = "start" => (values' = values /\ next' = next)]_vars

\* The steps completed in the running learning cycle: those from the last
\* ask_topic on.
CycleStart(steps) ==
    IF \E i \in DOMAIN steps : steps[i] = "ask_topic"
    THEN CHOOSE i \in DOMAIN steps :
             /\ steps[i] = "ask_topic"
             /\ \A j \in DOMAIN steps : steps[j] = "ask_topic" => j <= i
    ELSE 1

Cycle(steps) == SubSeq(steps, CycleStart(steps), Len(steps))

ServiceOf(step) ==
    IF step = "search_tavily" THEN "search"
    ELSE IF step \in {"summarize", "create_quiz", "grade_answer"} THEN "llm"
    ELSE "none"

\* C26: external calls are made once: an execution of search_tavily makes at
\* most one call, to the search service; an execution of summarize,
\* create_quiz or grade_answer makes at most one call, to the LLM, also when
\* the call fails; the other eight steps make no call.  A step that makes a
\* call comes after every calling step completed in its learning cycle, in
\* the order search_tavily, summarize, create_quiz, grade_answer, so a
\* cycle makes at most one search call and at most three LLM calls.
C26_SingleAttempt ==
    [][pc = "running" =>
           /\ Len(last'.calls) <= 1
           /\ \A i \in DOMAIN last'.calls :
                  last'.calls[i].service = ServiceOf(last'.node)
           /\ last'.calls # <<>> =>
                  \A i \in DOMAIN Cycle(executed) :
                      Cycle(executed)[i] \in ServiceSteps =>
                          PlaceOf(Cycle(executed)[i]) < PlaceOf(last'.node)]_vars

C26_Witness ==
    /\ JustRan("summarize")
    /\ last.calls = LLMCalls(TRUE)
    /\ executed = <<"ask_topic", "receive_topic", "search_tavily", "summarize">>
    /\ values.results # NoResultsText

\* The loop handed the input on: one human message more, nothing else
\* changed, and the graph runs next.
Forwarded ==
    /\ pc' = "running"
    /\ Len(values'.messages) = Len(values.messages) + 1
    /\ LastMessage(values').role = "human"

\* C27: exit, quit and bye, in any letter case, end the session at the
\* topic pause and only there, in a first and in a later cycle: no message
\* is appended, no step runs, and nothing happens afterwards; an input
\* handed on at the topic pause is never one of these words.  At the
\* answer pause and at the continue pause no input ends the session by
\* the loop: at the continue pause every input is handed on, these words
\* too.
C27_ExitOnlyAtTopicPause ==
    [][/\ pc' = "exited" =>
              /\ pc = "loop"
              /\ next = "receive_topic"
              /\ values' = values
              /\ next' = next
              /\ executed' = executed
       /\ (pc = "loop" /\ next = "receive_topic" /\ pc' # "exited") =>
              /\ Forwarded
              /\ Lower(LastMessage(values').content) \notin ExitWords
       /\ (pc = "loop" /\ next = "receive_answer") => pc' # "exited"
       /\ (pc = "loop" /\ next = "receive_continue") => Forwarded
       /\ pc # "exited"]_vars

C27_Witness ==
    /\ pc = "exited"
    /\ announced = "receive_topic"
    /\ next = "receive_topic"
    /\ JustRan("ask_topic")
    /\ values.messages = <<AIMessage(AskTopicText)>>

\* C28: at the answer pause the loop hands an input on only when its upper
\* case form is exactly A, B, C or D; on any other input it asks again:
\* channel values and pending step stay as they are and no step runs, so
\* the session stays at the answer pause until such an input comes.  The
\* receive_answer step that follows the pause then gives one of the
\* letters A, B, C, D as quiz_answer, never the empty text.
C28_LoopValidatesAnswer ==
    [][/\ (pc = "loop" /\ next = "receive_answer") =>
              /\ next' = next
              /\ executed' = executed
              /\ \/ /\ Forwarded
                    /\ Upper(LastMessage(values').content) \in AnswerLetters
                 \/ /\ pc' = "loop"
                    /\ values' = values
       /\ (pc = "running" /\ next = "receive_answer") =>
              /\ last'.node = "receive_answer"
              /\ last'.err \in {"none", "InvalidUpdateError"}
              /\ last'.upd.quiz_answer \in AnswerLetters]_vars

C28_Witness ==
    /\ JustRan("receive_answer")
    /\ "receive_answer" \in reported
    /\ LastMessage(values) = HumanMessage(<<"c">>)
    /\ last.upd.quiz_answer = <<"C">>
    /\ next = "grade_answer"

\* C29 (as claimed): run_id is given at the start of the session and is part
\* of the Session State from then on: in every state after the start it
\* holds the value the session was started with.
C29_RunIdKept ==
    pc # "start" => values.run_id \in RunIds

\* The response is this object in a code block between these texts.
AnsweredWith(prefaces, afterwords, doc) ==
    \E preface \in prefaces, opening \in {FENCE, FENCE_JSON}, afterword \in afterwords :
        callArg.llm.text = FencedObject(preface, opening, doc, afterword)

ReturnsObject(doc) ==
    /\ callRet.err = "none"
    /\ callRet.upd.grade = JsonValue(doc)
    /\ callRet.upd.grade.kind = "dict"

\* C30 (as claimed): when the response is a JSON object with the keys score,
\* feedback and citations in a code block, with or without the json tag
\* and with any text before or after the block, grade_answer returns that
\* object's score, feedback and citations and does not take the fallback.
C30_FencedObjectReturned ==
    \A doc \in GradeObjects :
        (Graded /\ AnsweredWith(Prefaces, Afterwords, doc)) => ReturnsObject(doc)

PlainPrefaces == {t \in Prefaces : ~Contains(t, FENCE)}

PlainAfterwords ==
    {t \in Afterwords : ~Contains(t, FENCE) /\ ~StartsWith(t, <<"j", "s", "o", "n">>)}

\* C30 (amended): the same, when the code block delimiter occurs nowhere
\* else in the response and the closing delimiter is not directly followed
\* by the letters json.
C30_SingleFencedObjectReturned ==
    \A doc \in GradeObjects :
        (Graded /\ AnsweredWith(PlainPrefaces, PlainAfterwords, doc)) =>
            ReturnsObject(doc)

C30_Witness ==
    /\ Graded
    /\ callArg.llm.text =
           FencedObject(<<"H", "e", "r", "e", ":", "\n">>, FENCE,
                        "{score:3,feedback,citations}", <<"\n", "!">>)
    /\ callRet = Returned([NoUpdate EXCEPT !.grade = GradeDict(PyInt(3), <<"g">>, <<>>)],
                          LLMCalls(TRUE))

\* The steps completed since the running app.invoke was called: those from
\* the last step of interrupt_before on, or all when none has run.
CallStart(steps) ==
    IF \E i \in DOMAIN steps : steps[i] \in interrupt_before
    THEN CHOOSE i \in DOMAIN steps :
             /\ steps[i] \in interrupt_before
             /\ \A j \in DOMAIN steps : steps[j] \in interrupt_before => j <= i
    ELSE 1

StepsOfCall(steps) == SubSeq(steps, CallStart(steps), Len(steps))

\* C31 (as claimed): every resume makes bounded progress: when the external
\* calls return, a call of the controller runs at most six steps, each step
\* completes, and the call ends paused before the next step that waits for
\* input or at the end of the flow; it never ends otherwise.
C31_BoundedProgress ==
    [][pc = "running" =>
           \/ ServiceFailed(last')
           \/ /\ pc' \in {"running", "loop"}
              /\ Len(StepsOfCall(executed')) <= 6]_vars

\* The text the step before a pause asks the user with.
PromptBefore(pause) ==
    CASE pause = "receive_topic" -> {AskTopicText}
      [] pause = "receive_answer" ->
             {NoQuizError} \cup {QuizText(q) : q \in LLMTexts}
      [] pause = "receive_continue" -> {AskContinueText}

\* C32: whenever a step has brought the session to a pause and the input of
\* the user is not yet written, the step that just ran is the one right
\* before the pause in the order, and the last message of the transcript is
\* the one assistant message that step appended: the topic prompt before
\* receive_topic, the quiz message before receive_answer, the continue
\* prompt before receive_continue.
C32_PromptBeforePause ==
    (pc = "loop" /\ next \in interrupt_before /\ executed # <<>>) =>
        /\ JustRan(Order[PlaceOf(next) - 1])
        /\ values.messages # <<>>
        /\ last.upd.messages = <<LastMessage(values)>>
        /\ LastMessage(values).role = "ai"
        /\ LastMessage(values).content \in PromptBefore(next)

C32_Witness ==
    /\ pc = "loop"
    /\ next = "receive_continue"
    /\ JustRan("ask_continue")
    /\ values.messages =
           <<AIMessage(AskTopicText), HumanMessage(<<"f", "l", "u">>),
             AIMessage(AskContinueText)>>

\* The value of a field after a direct call: what the returned dictionary
\* holds for it, else what the state held.
FieldAfter(key) ==
    IF callRet.upd[key] # Absent THEN callRet.upd[key] ELSE callArg[key]

\* The number of sources a results text lists.
CountSources(text) ==
    IF text \in {Absent, None} THEN 0
    ELSE Cardinality({i \in DOMAIN text : text[i] = "\n--- Source "})

\* C33 (as claimed): after every execution of the search step has_results
\* and sources_count describe the search just made: has_results is true
\* exactly when results lists sources, and sources_count is the number of
\* sources listed, 0 when there are none, whatever an earlier cycle left.
C33_SearchFieldsDescribeSearch ==
    (callFn = "search_tavily" /\ callRet.err = "none") =>
        /\ FieldAfter("has_results") =
               (IF CountSources(FieldAfter("results")) > 0 THEN PyTrue ELSE PyFalse)
        /\ FieldAfter("sources_count") = PyInt(CountSources(FieldAfter("results")))

\* The last step called the LLM.
CalledLLM(step) == last.node = step /\ last.calls # <<>>

\* C34 (as claimed): a notice or an error text that stands in for missing
\* content is never given to the LLM as content: summarize makes no LLM call
\* when results is the no-results notice or the no-topic error, and
\* create_quiz and grade_answer make none when summary or quiz_question is
\* an error text.
C34_NoPlaceholderToLLM ==
    /\ CalledLLM("summarize") => values.results \notin {NoResultsText, NoTopicError}
    /\ CalledLLM("create_quiz") => values.summary # MissingSummaryData
    /\ CalledLLM("grade_answer") =>
           /\ values.summary # MissingSummaryData
           /\ values.quiz_question # NoQuizError

\* C35 (as claimed): at the continue pause the loop announces a new topic
\* exactly when receive_continue then sets continue_learning to true and
\* the flow goes to ask_topic; for every other reply it announces the end
\* of the session and the flow ends.
C35_AnnouncementAgrees ==
    [][(pc = "running" /\ next = "receive_continue") =>
           IF AnnouncesNewTopic(LastMessage(values).content)
           THEN last'.upd.continue_learning = PyTrue /\ next' = "ask_topic"
           ELSE last'.upd.continue_learning = PyFalse /\ next' = END]_vars

\* The letters X the text names by "OPTION X" or "ALTERNATIVE X", as their
\* places in A..D.
NamedOptions(a) ==
    {i \in 1..4 :
         \/ Contains(a, <<"O", "P", "T", "I", "O", "N", " ", Letters[i]>>)
         \/ Contains(a, <<"A", "L", "T", "E", "R", "N", "A", "T", "I", "V", "E", " ",
                            Letters[i]>>)}

IsExact(a) == \E i \in 1..4 : a \in {<<Letters[i]>>, <<Digits[i + 1]>>}

\* C36: normalization applies its rules in this precedence, on the input
\* trimmed and in upper case: the input is exactly a letter A..D or a digit
\* 1..4; else the first of A, B, C, D that an option or alternative pattern
\* anywhere in the input names; else the first character when it is A..D;
\* else the empty text.  So an input whose patterns name exactly one letter
\* gives that letter whatever its first character.
C36_RulePrecedence ==
    callFn = "_normalize_quiz_answer" =>
        LET a == Strip(Upper(callArg))
        IN  /\ \A i \in 1..4 :
                   a \in {<<Letters[i]>>, <<Digits[i + 1]>>} => callRet = <<Letters[i]>>
            /\ (~IsExact(a) /\ NamedOptions(a) # {}) =>
                   \E i \in NamedOptions(a) :
                       /\ callRet = <<Letters[i]>>
                       /\ \A j \in NamedOptions(a) : i <= j
            /\ (~IsExact(a) /\ NamedOptions(a) = {}) =>
                   callRet = (IF a # <<>> /\ a[1] \in {"A", "B", "C", "D"}
                              THEN <<a[1]>> ELSE <<>>)

C36_Witness ==
    /\ callFn = "_normalize_quiz_answer"
    /\ callArg = <<"d", "o", "n", "e", ":", " ", "o", "p", "t", "i", "o", "n", " ", "c">>
    /\ callRet = <<"C">>

\* The closing sentences that occur in a message.
TiersIn(content) ==
    {tier \in {Congratulations, RightTrack, KeepLearning} :
         \E i \in 1..Len(content) : content[i] = tier[1]}

\* C37: present_grade appends exactly one assistant message; with an
\* integer score the message holds exactly one closing sentence, the
\* congratulations from 7 up, the right-track sentence for 5 and 6, the
\* keep-learning sentence up to 4, so the parse fallback (5) gets the middle
\* one and the missing-data grade (0) the lowest; with no grade or an empty
\* one the message is the error message and holds no closing sentence.
C37_TierFromScore ==
    callFn = "present_grade" =>
        LET grade == callArg.grade
            sent == callRet.upd.messages
        IN  /\ (grade.kind = "none" \/ (grade.kind = "dict" /\ grade.keys = {})) =>
                    /\ callRet.err = "none"
                    /\ sent = <<AIMessage(NoGradeError)>>
                    /\ TiersIn(sent[1].content) = {}
            /\ (grade.kind = "dict" /\ "score" \in grade.keys /\ IsPyInt(grade.score)) =>
                    /\ callRet.err = "none"
                    /\ Len(sent) = 1
                    /\ sent[1].role = "ai"
                    /\ callRet.upd = [NoUpdate EXCEPT !.messages = sent]
                    /\ TiersIn(sent[1].content) =
                           {IF IntOf(grade.score) >= 7 THEN Congratulations
                            ELSE IF IntOf(grade.score) \in 5..6 THEN RightTrack
                            ELSE KeepLearning}
                    /\ (grade = FallbackGrade(grade.feedback)) =>
                           TiersIn(sent[1].content) = {RightTrack}
                    /\ (grade = GradeDict(PyInt(0), NoEvaluationFeedback, <<>>)) =>
                           TiersIn(sent[1].content) = {KeepLearning}

C37_Witness ==
    /\ callFn = "present_grade"
    /\ callArg.grade = GradeDict(PyInt(6), <<"f">>, <<>>)
    /\ callRet.err = "none"
    /\ TiersIn(callRet.upd.messages[1].content) = {RightTrack}

\* The steps that show something to the user.
Presenters ==
    {"ask_topic", "present_summary", "present_quiz", "present_grade", "ask_continue"}

\* The fields a step is meant to write.
OwnFields(node) ==
    CASE node \in Presenters -> {"messages"}
      [] node = "receive_topic" -> {"topic", "messages"}
      [] node = "search_tavily" -> {"results", "has_results", "sources_count"}
      [] node = "summarize" -> {"summary"}
      [] node = "create_quiz" -> {"quiz_question"}
      [] node = "receive_answer" -> {"quiz_answer"}
      [] node = "grade_answer" -> {"grade"}
      [] node = "receive_continue" ->
             {"continue_learning", "topic", "results", "summary",
              "quiz_question", "quiz_answer", "grade"}

\* C38: a step that returns writes only its own fields: the five presenting
\* steps return exactly one assistant message and nothing else,
\* receive_topic on a human message the trimmed text as topic and exactly
\* one assistant message, every other step no message; with the one human
\* message written at each of the three pauses the twelve steps of a cycle
\* add nine messages, six of the assistant and three of the user.
C38_StepWritesOwnFields ==
    (callFn = "step" /\ callRet.err = "none") =>
        LET node == callArg.node
            state == callArg.state
            upd == callRet.upd
            human == LastMessage(state).role = "human"
            speaks == node \in Presenters \/ (node = "receive_topic" /\ human)
        IN  /\ KeysOf(upd) \subseteq OwnFields(node)
            /\ Len(upd.messages) = IF speaks THEN 1 ELSE 0
            /\ \A i \in 1..Len(upd.messages) : upd.messages[i].role = "ai"
            /\ (node = "receive_topic" /\ human) =>
                   /\ upd.topic = Strip(LastMessage(state).content)
                   /\ KeysOf(upd) = {"topic", "messages"}
            /\ node = "receive_answer" => KeysOf(upd) = {"quiz_answer"}
            /\ node = "summarize" => KeysOf(upd) = {"summary"}
            /\ node = "create_quiz" => KeysOf(upd) = {"quiz_question"}
            /\ node = "grade_answer" => KeysOf(upd) = {"grade"}
            /\ Cardinality(Presenters \cup {"receive_topic"})
                   + Cardinality(interrupt_before) = 9

C38_Witness ==
    /\ callFn = "step"
    /\ callArg.node = "receive_topic"
    /\ LastMessage(callArg.state) = HumanMessage(<<" ", "B", " ">>)
    /\ callRet.err = "none"
    /\ callRet.upd.topic = <<"B">>
    /\ Len(callRet.upd.messages) = 1

\* C39 (as claimed): when the router is consulted, after a receive_continue
\* step that returned, the state holds the continue_learning that step has
\* just written, and the route follows it: back to ask_topic when it is
\* true, to the end when it is false, so that the session ends in the first
\* cycle whose answer is not affirmative and in no cycle whose answer is.
C39_RouterReadsLatestAnswer ==
    [][(executed' = Append(executed, "receive_continue") /\ last'.err = "none") =>
           /\ last'.upd.continue_learning \in {PyTrue, PyFalse}
           /\ values'.continue_learning = last'.upd.continue_learning
           /\ (next' = END) = (last'.upd.continue_learning = PyFalse)
           /\ (next' = "ask_topic") = (last'.upd.continue_learning = PyTrue)]_vars


=============================================================================
